---- MODULE Spec2Model ----
(***************************************************************************)
(* Model of the bikewatching page script (src/unnamed/part_000, the same   *)
(* code as src/map.js lines 142-397): the time filter, the per-station     *)
(* traffic aggregation, the radius and flow scales, the keyed join of      *)
(* stations to SVG circles, the re-projection of the circles and the       *)
(* event handlers (map load, slider input, viewport change) that drive     *)
(* them.                                                                   *)
(*                                                                         *)
(* Library behaviour the script relies on (d3.rollup, d3.max, d3.scaleSqrt,*)
(* d3.scaleQuantize, selection.data/enter/merge/exit, map.project) is      *)
(* modelled at the call site that uses it.                                 *)
(***************************************************************************)
EXTENDS Integers, Sequences, FiniteSets, TLC

VARIABLES
    pc,            \* position of the async map 'load' handler
    hasSlider,     \* whether #time-slider exists (timeSlider is non-null)
    sliderValue,   \* timeSlider.value, a string of characters
    stations,      \* let stations
    trips,         \* let trips
    timeFilter,    \* let timeFilter
    radiusScale,   \* let radiusScale: <<>> while undefined, else <<scale>>
    svg,           \* the circle elements of the SVG overlay, in document order
    viewport,      \* the map's current view (what map.project uses)
    label,         \* selectedTimeEl.textContent and anyTimeLabel.style.display
    console,       \* the console.error diagnostics written so far
    runs           \* history: the most recent calls of updateScatterPlot

vars == <<pc, hasSlider, sliderValue, stations, trips, timeFilter, radiusScale,
          svg, viewport, label, console, runs>>

(***************************************************************************)
(* Bounds of the model.                                                    *)
(***************************************************************************)
MaxStations == 2
MaxTrips == 2
MaxFnTrips == 2
Precision == 100

(***************************************************************************)
(* Program constants.                                                      *)
(***************************************************************************)
Sentinel == -1
Window == 60
MinutesPerHour == 60

RangeDefault == <<0, 25>>
RangeFiltered == <<3, 50>>
stationFlowRange == <<"0", "0.5", "1">>

(***************************************************************************)
(* Small helpers.                                                          *)
(***************************************************************************)
Abs(x) == IF x < 0 THEN -x ELSE x

SeqsUpTo(S, n) == UNION {[1..k -> S] : k \in 0..n}

RECURSIVE SumSeq(_)
SumSeq(s) == IF s = <<>> THEN 0 ELSE Head(s) + SumSeq(Tail(s))

RECURSIVE MaxSeq(_)
MaxSeq(s) ==
    IF Len(s) = 1 THEN s[1]
    ELSE LET m == MaxSeq(Tail(s)) IN IF s[1] >= m THEN s[1] ELSE m

\* floor of the square root of n, by bisection on lo..hi
RECURSIVE SqrtBetween(_, _, _)
SqrtBetween(n, lo, hi) ==
    IF lo >= hi THEN lo
    ELSE LET mid == (lo + hi + 1) \div 2
         IN  IF mid * mid <= n THEN SqrtBetween(n, mid, hi)
             ELSE SqrtBetween(n, lo, mid - 1)

ISqrt(n) == SqrtBetween(n, 0, IF n < 46340 THEN n ELSE 46340)

(***************************************************************************)
(* Input data: what the two feeds, the slider and the map can deliver.     *)
(***************************************************************************)
StationNames == <<"A", "B", "C", "D">>

\* a record of the station feed: short_name and its coordinate
Station(i) == [short_name |-> StationNames[i], lon |-> i, lat |-> 2 * i]

\* station lists with unique short_name, in every order
StationFeeds ==
    {s \in SeqsUpTo({Station(i) : i \in 1..MaxStations}, MaxStations) :
        \A i, j \in DOMAIN s : i # j => s[i].short_name # s[j].short_name}

\* a parsed timestamp; only hours and minutes are read by the script
Date(d, h, m) == [day |-> d, hours |-> h, minutes |-> m]

Trip(from, to, s, e) ==
    [start_station_id |-> from, end_station_id |-> to, started_at |-> s, ended_at |-> e]

\* "X" is a station id that no station of the feed carries
SampleTrips ==
    { Trip("A", "B", Date(1, 8, 0), Date(1, 8, 10)),
      Trip("B", "A", Date(1, 20, 0), Date(1, 20, 5)),
      Trip("A", "A", Date(2, 6, 50), Date(2, 7, 0)),
      Trip("X", "A", Date(3, 6, 40), Date(3, 6, 59)) }

TripFeeds == SeqsUpTo(SampleTrips, MaxTrips)

\* for the specification that applies the filter and the aggregation
\* directly: every combination of endpoints at one time, and one pair of
\* endpoints at start/end times on either side of the window's edge and of
\* midnight
FnTimes ==
    { <<Date(1, 8, 0), Date(1, 8, 10)>>,
      <<Date(2, 1, 5), Date(2, 1, 30)>>,
      <<Date(3, 1, 6), Date(3, 1, 30)>>,
      <<Date(2, 23, 40), Date(2, 23, 50)>>,
      <<Date(2, 23, 50), Date(3, 0, 10)>> }

FnTrips ==
    {Trip(a, b, Date(1, 8, 0), Date(1, 8, 10)) :
        a \in {"A", "B", "X"}, b \in {"A", "B", "X"}}
      \cup {Trip("A", "B", t[1], t[2]) : t \in FnTimes}

FnTripFeeds == SeqsUpTo(FnTrips, MaxFnTrips)

\* values of timeSlider.value, as the characters of the string
SliderValues ==
    { <<"-", "1">>, <<"5">>, <<"4", "8", "0">>, <<"1", "4", "4", "0">> }

\* views of the map: centre and scale (pixels per degree)
View(lon, lat, scale) == [lon |-> lon, lat |-> lat, scale |-> scale]

InitialView == View(0, 0, 1)

Views == {InitialView, View(1, 0, 2)}

(***************************************************************************)
(* Helper functions of the script.                                         *)
(***************************************************************************)
\* Number(string): decimal digits with an optional leading minus; "" is 0
DigitValue(c) == CHOOSE d \in 0..9 : ToString(d) = c

RECURSIVE Decimal(_, _)
Decimal(chars, acc) ==
    IF chars = <<>> THEN acc
    ELSE Decimal(Tail(chars), 10 * acc + DigitValue(Head(chars)))

Number(chars) ==
    IF chars # <<>> /\ Head(chars) = "-" THEN 0 - Decimal(Tail(chars), 0)
    ELSE Decimal(chars, 0)

\* map.project of the station's LngLat under a view
project(lon, lat, view) ==
    [x |-> (lon - view.lon) * view.scale, y |-> (view.lat - lat) * view.scale]

getCoords(station, view) ==
    LET point == project(station.lon, station.lat, view)
    IN  [cx |-> point.x, cy |-> point.y]

minutesSinceMidnight(date) == date.hours * MinutesPerHour + date.minutes

\* faulty variant: the window's edge taken as exclusive
filterTripsByTime_strict(allTrips, timeFilterValue) ==
    IF timeFilterValue = Sentinel THEN allTrips
    ELSE SelectSeq(allTrips,
            LAMBDA trip :
                LET start == minutesSinceMidnight(trip.started_at)
                    end == minutesSinceMidnight(trip.ended_at)
                IN  \/ Abs(start - timeFilterValue) < Window
                    \/ Abs(end - timeFilterValue) < Window)

\* faulty variant: no early return for the sentinel
filterTripsByTime_noSentinel(allTrips, timeFilterValue) ==
    SelectSeq(allTrips,
        LAMBDA trip :
            LET start == minutesSinceMidnight(trip.started_at)
                end == minutesSinceMidnight(trip.ended_at)
            IN  \/ Abs(start - timeFilterValue) <= Window
                \/ Abs(end - timeFilterValue) <= Window)

filterTripsByTime(allTrips, timeFilterValue) ==
    IF timeFilterValue = Sentinel THEN allTrips
    ELSE SelectSeq(allTrips,
            LAMBDA trip :
                LET start == minutesSinceMidnight(trip.started_at)
                    end == minutesSinceMidnight(trip.ended_at)
                IN  \/ Abs(start - timeFilterValue) <= Window
                    \/ Abs(end - timeFilterValue) <= Window)

\* d3.rollup(tripsSubset, v => v.length, d => d[key]): a map from each
\* value of the field that occurs to the number of trips carrying it
rollup(tripsSubset, key) ==
    [k \in {tripsSubset[i][key] : i \in DOMAIN tripsSubset} |->
        Cardinality({i \in DOMAIN tripsSubset : tripsSubset[i][key] = k})]

\* map.get(id) ?? 0
getOrZero(map, id) == IF id \in DOMAIN map THEN map[id] ELSE 0

\* faulty variant: only the stations that some trip names are emitted
computeStationTraffic_onlyActive(stationList, tripsSubset) ==
    LET departures == rollup(tripsSubset, "start_station_id")
        arrivals == rollup(tripsSubset, "end_station_id")
        active == SelectSeq(stationList,
                    LAMBDA station : station.short_name \in
                        (DOMAIN departures) \cup (DOMAIN arrivals))
    IN  [i \in DOMAIN active |->
            LET station == active[i]
                id == station.short_name
                arrivalsCount == getOrZero(arrivals, id)
                departuresCount == getOrZero(departures, id)
            IN  [short_name |-> station.short_name,
                 lon |-> station.lon,
                 lat |-> station.lat,
                 arrivals |-> arrivalsCount,
                 departures |-> departuresCount,
                 totalTraffic |-> arrivalsCount + departuresCount]]

\* faulty variant: both rollups keyed by start_station_id
computeStationTraffic_sameKey(stationList, tripsSubset) ==
    LET departures == rollup(tripsSubset, "start_station_id")
        arrivals == rollup(tripsSubset, "start_station_id")
    IN  [i \in DOMAIN stationList |->
            LET station == stationList[i]
                id == station.short_name
                arrivalsCount == getOrZero(arrivals, id)
                departuresCount == getOrZero(departures, id)
            IN  [short_name |-> station.short_name,
                 lon |-> station.lon,
                 lat |-> station.lat,
                 arrivals |-> arrivalsCount,
                 departures |-> departuresCount,
                 totalTraffic |-> arrivalsCount + departuresCount]]

\* faulty variant: arrivals counted by start station, departures by end
computeStationTraffic_swapped(stationList, tripsSubset) ==
    LET departures == rollup(tripsSubset, "end_station_id")
        arrivals == rollup(tripsSubset, "start_station_id")
    IN  [i \in DOMAIN stationList |->
            LET station == stationList[i]
                id == station.short_name
                arrivalsCount == getOrZero(arrivals, id)
                departuresCount == getOrZero(departures, id)
            IN  [short_name |-> station.short_name,
                 lon |-> station.lon,
                 lat |-> station.lat,
                 arrivals |-> arrivalsCount,
                 departures |-> departuresCount,
                 totalTraffic |-> arrivalsCount + departuresCount]]

computeStationTraffic(stationList, tripsSubset) ==
    LET departures == rollup(tripsSubset, "start_station_id")
        arrivals == rollup(tripsSubset, "end_station_id")
    IN  [i \in DOMAIN stationList |->
            LET station == stationList[i]
                id == station.short_name
                arrivalsCount == getOrZero(arrivals, id)
                departuresCount == getOrZero(departures, id)
            IN  [short_name |-> station.short_name,
                 lon |-> station.lon,
                 lat |-> station.lat,
                 arrivals |-> arrivalsCount,
                 departures |-> departuresCount,
                 totalTraffic |-> arrivalsCount + departuresCount]]

\* formatTime: the time of day `minutes` after midnight, en-US short style
TwoDigits(n) == IF n < 10 THEN "0" \o ToString(n) ELSE ToString(n)

formatTime(minutes) ==
    LET hours24 == (minutes \div MinutesPerHour) % 24
        hours12 == IF hours24 % 12 = 0 THEN 12 ELSE hours24 % 12
    IN  ToString(hours12) \o ":" \o TwoDigits(minutes % MinutesPerHour)
            \o (IF hours24 < 12 THEN " AM" ELSE " PM")

(***************************************************************************)
(* The two scales.                                                         *)
(***************************************************************************)
\* d3.max(stationsWithTraffic, d => d.totalTraffic) || 1
maxTrafficOf(stationsWithTraffic) ==
    LET m == IF stationsWithTraffic = <<>> THEN 0
             ELSE MaxSeq([i \in DOMAIN stationsWithTraffic |->
                            stationsWithTraffic[i].totalTraffic])
    IN  IF m = 0 THEN 1 ELSE m

\* faulty variant: an existing scale keeps its domain
setRadiusScale_staleDomain(scale, maxTraffic, timeFilterValue) ==
    LET created == IF scale = <<>>
                   THEN [domain |-> <<0, maxTraffic>>, range |-> RangeDefault]
                   ELSE scale[1]
    IN  <<[created EXCEPT !.range =
              IF timeFilterValue = Sentinel THEN RangeDefault ELSE RangeFiltered]>>

\* the scale object after lines 162-176
setRadiusScale(scale, maxTraffic, timeFilterValue) ==
    LET created == IF scale = <<>>
                   THEN [domain |-> <<0, maxTraffic>>, range |-> RangeDefault]
                   ELSE [scale[1] EXCEPT !.domain = <<0, maxTraffic>>]
    IN  <<[created EXCEPT !.range =
              IF timeFilterValue = Sentinel THEN RangeDefault ELSE RangeFiltered]>>

\* d3.scaleSqrt: range[1] + (range[2] - range[1]) * sqrt(x / domain[2]),
\* in units of 1/Precision pixel
applyRadiusScale(scale, x) ==
    LET span == (scale.range[2] - scale.range[1]) * Precision
    IN  scale.range[1] * Precision
          + ISqrt((span * span * (x - scale.domain[1]))
                    \div (scale.domain[2] - scale.domain[1]))

\* faulty variant: a value on a threshold falls in the bucket below it
stationFlow_below(num, den) ==
    LET n == Len(stationFlowRange)
        below == Cardinality({i \in 1..(n - 1) : i * den < n * num})
    IN  stationFlowRange[below + 1]

\* d3.scaleQuantize().domain([0, 1]).range(stationFlowRange) applied to the
\* ratio num/den: the thresholds are i/n for i in 1..n-1, a value on a
\* threshold falls in the bucket above it (bisectRight)
stationFlow(num, den) ==
    LET n == Len(stationFlowRange)
        below == Cardinality({i \in 1..(n - 1) : i * den <= n * num})
    IN  stationFlowRange[below + 1]

departureRatio(d) ==
    IF d.totalTraffic = 0 THEN stationFlow(1, 2)
    ELSE stationFlow(d.departures, d.totalTraffic)

\* faulty variant: the arrivals are printed where the departures belong
tooltipText_swapped(d) ==
    ToString(d.totalTraffic) \o " trips (" \o ToString(d.arrivals)
        \o " departures, " \o ToString(d.departures) \o " arrivals)"

tooltipText(d) ==
    ToString(d.totalTraffic) \o " trips (" \o ToString(d.departures)
        \o " departures, " \o ToString(d.arrivals) \o " arrivals)"

(***************************************************************************)
(* The SVG overlay.  A circle element is a record: its identity (node),    *)
(* the datum bound to it (__data__), its r attribute in 1/Precision pixel, *)
(* its --departure-ratio style, the text of its <title> children in order, *)
(* and its cx and cy attributes.  A new element is a new object: its       *)
(* identity differs from that of every element in the overlay when it is   *)
(* created (an identity is free again once its element is gone).           *)
(***************************************************************************)
newNode(dom) ==
    LET used == {dom[i].node : i \in DOMAIN dom}
    IN  CHOOSE n \in 1..(Cardinality(used) + 1) :
            n \notin used /\ \A m \in 1..(n - 1) : m \in used

newCircle(id, d) ==
    [node |-> id, data |-> d, r |-> 0, flow |-> "", titles |-> <<>>, cx |-> 0, cy |-> 0]

\* faulty variant: the key function reads a field the data do not have
keyOf_undefined(d) == "undefined"

keyOf(d) == d.short_name

\* updatePositions: every circle of the overlay is placed from its datum
updatePositions(dom, view) ==
    [i \in DOMAIN dom |->
        [dom[i] EXCEPT !.cx = getCoords(dom[i].data, view).cx,
                       !.cy = getCoords(dom[i].data, view).cy]]

\* selection.data(data, key), first loop: the first element carrying a key
\* is the one the key names; later elements with the same key are exits
namedIndex(group, k) ==
    LET with == {i \in DOMAIN group : keyOf(group[i].data) = k}
    IN  IF with = {} THEN 0 ELSE CHOOSE i \in with : \A j \in with : i <= j

\* second loop: a datum takes the element its key names unless an earlier
\* datum with the same key took it; otherwise the datum enters
updateIndices(group, data) ==
    {i \in DOMAIN data :
        /\ namedIndex(group, keyOf(data[i])) # 0
        /\ \A j \in 1..(i - 1) : keyOf(data[j]) # keyOf(data[i])}

\* third loop: elements that no datum took
exitIndices(group, data) ==
    {i \in DOMAIN group :
        \/ namedIndex(group, keyOf(group[i].data)) # i
        \/ \A j \in DOMAIN data : keyOf(data[j]) # keyOf(group[i].data)}

insertBefore(dom, e, at) ==
    SubSeq(dom, 1, at - 1) \o <<e>> \o SubSeq(dom, at, Len(dom))

\* enter().append('circle'): each entering datum gets a new element, put
\* before the element of the next updating datum, or last when none follows
\* (update is updateIndices(group, data))
RECURSIVE appendEntered(_, _, _, _, _)
appendEntered(dom, group, data, update, i) ==
    IF i > Len(data) THEN dom
    ELSE IF i \in update
         THEN appendEntered(dom, group, data, update, i + 1)
         ELSE LET later == {j \in update : j > i}
                  next == IF later = {} THEN 0
                          ELSE CHOOSE j \in later : \A k \in later : j <= k
                  at == IF next = 0 THEN Len(dom) + 1
                        ELSE CHOOSE n \in DOMAIN dom :
                                dom[n].node =
                                    group[namedIndex(group, keyOf(data[next]))].node
              IN  appendEntered(insertBefore(dom, newCircle(newNode(dom), data[i]), at),
                                group, data, update, i + 1)

\* faulty variant: the old <title> is left in place when the new one is appended
setAttributes_keepTitles(circle, d, scale) ==
    [circle EXCEPT
        !.data = d,
        !.r = applyRadiusScale(scale, d.totalTraffic),
        !.flow = departureRatio(d),
        !.titles = circle.titles \o <<tooltipText(d)>>]

\* faulty variant: the radius is taken from the departures
setAttributes_byDepartures(circle, d, scale) ==
    [circle EXCEPT
        !.data = d,
        !.r = applyRadiusScale(scale, d.departures),
        !.flow = departureRatio(d),
        !.titles = (IF circle.titles = <<>> THEN <<>> ELSE Tail(circle.titles))
                      \o <<tooltipText(d)>>]

\* the attributes and the tooltip set on an entered or updated element
setAttributes(circle, d, scale) ==
    [circle EXCEPT
        !.data = d,
        !.r = applyRadiusScale(scale, d.totalTraffic),
        !.flow = departureRatio(d),
        !.titles = (IF circle.titles = <<>> THEN <<>> ELSE Tail(circle.titles))
                      \o <<tooltipText(d)>>]

\* what a run recorded of an element: everything but its position
attributesOf(circle) ==
    [node |-> circle.node, data |-> circle.data, r |-> circle.r,
     flow |-> circle.flow, titles |-> circle.titles]

snapshot(dom) == [i \in DOMAIN dom |-> attributesOf(dom[i])]

\* faulty variant: the traffic counts are written into the station list
\* itself instead of into copies of its records
updateScatterPlot_inPlace(timeFilterValue, s) ==
    LET filteredTrips == filterTripsByTime(s.trips, timeFilterValue)
        stationsWithTraffic == computeStationTraffic(s.stations, filteredTrips)
        maxTraffic == maxTrafficOf(stationsWithTraffic)
        scale == setRadiusScale(s.radiusScale, maxTraffic, timeFilterValue)
        group == s.svg
        update == updateIndices(group, stationsWithTraffic)
        exit == exitIndices(group, stationsWithTraffic)
        exitNodes == {group[i].node : i \in exit}
        entered == appendEntered(group, group, stationsWithTraffic, update, 1)
        created == {entered[i].node : i \in DOMAIN entered} \
                      {group[i].node : i \in DOMAIN group}
        datumOf(circle) ==
            IF circle.node \in created THEN circle.data
            ELSE stationsWithTraffic[
                    CHOOSE i \in update :
                        group[namedIndex(group, keyOf(stationsWithTraffic[i]))].node
                            = circle.node]
        merged == [i \in DOMAIN entered |->
                      IF entered[i].node \in exitNodes THEN entered[i]
                      ELSE setAttributes(entered[i], datumOf(entered[i]), scale[1])]
        kept == SelectSeq(merged, LAMBDA c : c.node \notin exitNodes)
        placed == updatePositions(kept, s.viewport)
        prior == IF s.runs = <<>> THEN <<>>
                 ELSE <<[cursor |-> s.runs[Len(s.runs)].cursor,
                         stations |-> s.runs[Len(s.runs)].stations]>>
        run == [cursor |-> timeFilterValue,
                prior |-> prior,
                stations |-> s.stations,
                filteredTrips |-> filteredTrips,
                stationsWithTraffic |-> stationsWithTraffic,
                scale |-> scale[1],
                before |-> snapshot(group),
                after |-> snapshot(placed),
                created |-> created,
                removed |-> exitNodes,
                viewport |-> s.viewport]
    IN  [s EXCEPT !.stations = stationsWithTraffic,
                  !.radiusScale = scale,
                  !.svg = placed,
                  !.runs = Append(s.runs, run)]

\* The state updateScatterPlot reads and writes, as a record s with fields
\* stations, trips, radiusScale, svg, viewport, runs; the result is
\* the record after the call.  Each call appends to s.runs what it did: its
\* argument and locals, the overlay before and after, the elements created
\* and removed, the view it placed them under, and the cursor and stations
\* of the call before it (prior).
updateScatterPlot(timeFilterValue, s) ==
    LET filteredTrips == filterTripsByTime(s.trips, timeFilterValue)
        stationsWithTraffic == computeStationTraffic(s.stations, filteredTrips)
        maxTraffic == maxTrafficOf(stationsWithTraffic)
        scale == setRadiusScale(s.radiusScale, maxTraffic, timeFilterValue)
        group == s.svg
        update == updateIndices(group, stationsWithTraffic)
        exit == exitIndices(group, stationsWithTraffic)
        exitNodes == {group[i].node : i \in exit}
        entered == appendEntered(group, group, stationsWithTraffic, update, 1)
        created == {entered[i].node : i \in DOMAIN entered} \
                      {group[i].node : i \in DOMAIN group}
        datumOf(circle) ==
            IF circle.node \in created THEN circle.data
            ELSE stationsWithTraffic[
                    CHOOSE i \in update :
                        group[namedIndex(group, keyOf(stationsWithTraffic[i]))].node
                            = circle.node]
        merged == [i \in DOMAIN entered |->
                      IF entered[i].node \in exitNodes THEN entered[i]
                      ELSE setAttributes(entered[i], datumOf(entered[i]), scale[1])]
        kept == SelectSeq(merged, LAMBDA c : c.node \notin exitNodes)
        placed == updatePositions(kept, s.viewport)
        prior == IF s.runs = <<>> THEN <<>>
                 ELSE <<[cursor |-> s.runs[Len(s.runs)].cursor,
                         stations |-> s.runs[Len(s.runs)].stations]>>
        run == [cursor |-> timeFilterValue,
                prior |-> prior,
                stations |-> s.stations,
                filteredTrips |-> filteredTrips,
                stationsWithTraffic |-> stationsWithTraffic,
                scale |-> scale[1],
                before |-> snapshot(group),
                after |-> snapshot(placed),
                created |-> created,
                removed |-> exitNodes,
                viewport |-> s.viewport]
    IN  [s EXCEPT !.radiusScale = scale,
                  !.svg = placed,
                  !.runs = Append(s.runs, run)]

\* faulty variant: the render is not held back while the data are missing
updateTimeDisplay_unguarded(s) ==
    IF ~s.hasSlider THEN s
    ELSE LET value == Number(s.sliderValue)
             shown == IF value = Sentinel
                      THEN [text |-> "", anyTime |-> "inline"]
                      ELSE [text |-> formatTime(value), anyTime |-> "none"]
             t == [s EXCEPT !.timeFilter = value, !.label = shown]
         IN  updateScatterPlot(t.timeFilter, t)

\* faulty variant: only the station list is tested before rendering
updateTimeDisplay_stationsOnly(s) ==
    IF ~s.hasSlider THEN s
    ELSE LET value == Number(s.sliderValue)
             shown == IF value = Sentinel
                      THEN [text |-> "", anyTime |-> "inline"]
                      ELSE [text |-> formatTime(value), anyTime |-> "none"]
             t == [s EXCEPT !.timeFilter = value, !.label = shown]
         IN  IF Len(t.stations) = 0 THEN t
             ELSE updateScatterPlot(t.timeFilter, t)

\* updateTimeDisplay; s also carries hasSlider, sliderValue, timeFilter, label
updateTimeDisplay(s) ==
    IF ~s.hasSlider THEN s
    ELSE LET value == Number(s.sliderValue)
             shown == IF value = Sentinel
                      THEN [text |-> "", anyTime |-> "inline"]
                      ELSE [text |-> formatTime(value), anyTime |-> "none"]
             t == [s EXCEPT !.timeFilter = value, !.label = shown]
         IN  IF Len(t.stations) = 0 \/ Len(t.trips) = 0 THEN t
             ELSE updateScatterPlot(t.timeFilter, t)

(***************************************************************************)
(* The state machine.                                                      *)
(***************************************************************************)
Cur ==
    [hasSlider |-> hasSlider, sliderValue |-> sliderValue, stations |-> stations,
     trips |-> trips, timeFilter |-> timeFilter, radiusScale |-> radiusScale,
     svg |-> svg, viewport |-> viewport, label |-> label,
     runs |-> runs]

\* the history keeps the calls of the latest handler that made any
callsSince(old, new) ==
    IF Len(new) > Len(old) THEN SubSeq(new, Len(old) + 1, Len(new)) ELSE old

Assign(s) ==
    /\ hasSlider' = s.hasSlider
    /\ sliderValue' = s.sliderValue
    /\ stations' = s.stations
    /\ trips' = s.trips
    /\ timeFilter' = s.timeFilter
    /\ radiusScale' = s.radiusScale
    /\ svg' = s.svg
    /\ viewport' = s.viewport
    /\ label' = s.label
    /\ runs' = callsSince(runs, s.runs)

\* module evaluation: the globals as declared, an empty overlay, the slider
\* at its "any time" position
InitGlobals ==
    /\ sliderValue = <<"-", "1">>
    /\ timeFilter = Sentinel
    /\ radiusScale = <<>>
    /\ svg = <<>>
    /\ viewport = InitialView
    /\ label = [text |-> "", anyTime |-> ""]
    /\ console = <<>>
    /\ runs = <<>>

Init ==
    /\ pc = "start"
    /\ hasSlider \in BOOLEAN
    /\ stations = <<>>
    /\ trips = <<>>
    /\ InitGlobals

\* the map fires 'load': the handler adds the bike-lane layers and awaits
\* the station feed
MapLoad ==
    /\ pc = "start"
    /\ pc' = "stations"
    /\ UNCHANGED <<hasSlider, sliderValue, stations, trips, timeFilter, radiusScale,
                   svg, viewport, label, console, runs>>

\* d3.json resolves: the handler stores the stations and awaits the trips
StationsLoaded(feed) ==
    /\ pc = "stations"
    /\ stations' = feed
    /\ pc' = "trips"
    /\ UNCHANGED <<hasSlider, sliderValue, trips, timeFilter, radiusScale,
                   svg, viewport, label, console, runs>>

\* d3.json rejects (or the document has no data.stations): catch, return
StationsFailed ==
    /\ pc = "stations"
    /\ console' = Append(console, "Error loading station JSON:")
    /\ pc' = "failed"
    /\ UNCHANGED <<hasSlider, sliderValue, stations, trips, timeFilter, radiusScale,
                   svg, viewport, label, runs>>

\* d3.csv resolves: the handler stores the trips, renders, refreshes the
\* label and registers updatePositions on the map
TripsLoaded(feed) ==
    /\ pc = "trips"
    /\ \E loaded \in {[Cur EXCEPT !.trips = feed]} :
       \E first \in {updateScatterPlot(loaded.timeFilter, loaded)} :
       \E after \in {updateTimeDisplay(first)} :
          Assign(after)
    /\ pc' = "ready"
    /\ UNCHANGED console

\* d3.csv rejects: catch, return
TripsFailed ==
    /\ pc = "trips"
    /\ console' = Append(console, "Error loading trips CSV:")
    /\ pc' = "failed"
    /\ UNCHANGED <<hasSlider, sliderValue, stations, trips, timeFilter, radiusScale,
                   svg, viewport, label, runs>>

\* the slider fires 'input' with a new value: updateTimeDisplay runs
SliderInput(value) ==
    /\ hasSlider
    /\ \E after \in {updateTimeDisplay([Cur EXCEPT !.sliderValue = value])} :
          Assign(after)
    /\ UNCHANGED <<pc, console>>

\* faulty variant: the map listener renders again instead of re-placing
ViewportChange_rerun(view) ==
    /\ \E after \in {IF pc = "ready"
                     THEN updateScatterPlot(timeFilter, [Cur EXCEPT !.viewport = view])
                     ELSE [Cur EXCEPT !.viewport = view]} :
          Assign(after)
    /\ UNCHANGED <<pc, console>>

\* faulty variant: the map listener leaves the circles where they were
ViewportChange_noReproject(view) ==
    /\ viewport' = view
    /\ UNCHANGED <<pc, hasSlider, sliderValue, stations, trips, timeFilter,
                   radiusScale, svg, label, console, runs>>

\* the map fires move, zoom, resize or moveend with the view it now has;
\* updatePositions is registered once the load handler has finished
ViewportChange(view) ==
    /\ viewport' = view
    /\ svg' = IF pc = "ready" THEN updatePositions(svg, view) ELSE svg
    /\ UNCHANGED <<pc, hasSlider, sliderValue, stations, trips, timeFilter,
                   radiusScale, label, console, runs>>

Next ==
    \/ MapLoad
    \/ \E feed \in StationFeeds : StationsLoaded(feed)
    \/ StationsFailed
    \/ \E feed \in TripFeeds : TripsLoaded(feed)
    \/ TripsFailed
    \/ \E value \in SliderValues : SliderInput(value)
    \/ \E view \in Views : ViewportChange(view)

Spec == Init /\ [][Next]_vars

(***************************************************************************)
(* Direct application of the functions: the inputs are drawn from bounded  *)
(* sets and updateScatterPlot is called on them with every cursor.         *)
(***************************************************************************)
Cursors == {Number(value) : value \in SliderValues}

InitFn ==
    /\ pc = "call"
    /\ hasSlider = TRUE
    /\ stations \in StationFeeds
    /\ trips \in FnTripFeeds
    /\ InitGlobals

Call(cursor) ==
    /\ pc = "call"
    /\ \E after \in {updateScatterPlot(cursor, Cur)} : Assign(after)
    /\ UNCHANGED <<pc, console>>

CallOnce(cursor) == runs = <<>> /\ Call(cursor)

NextFn == \E cursor \in Cursors : CallOnce(cursor)

SpecFn == InitFn /\ [][NextFn]_vars

\* the same on a sequence of calls, each with a station list of its own, so
\* that the join meets stations that appear, disappear and change position
JoinTrips ==
    << Trip("A", "B", Date(1, 8, 0), Date(1, 8, 10)),
       Trip("B", "A", Date(1, 20, 0), Date(1, 20, 5)) >>

JoinCursors == {Sentinel, Number(<<"4", "8", "0">>)}

InitJoin ==
    /\ pc = "call"
    /\ hasSlider = TRUE
    /\ stations = <<>>
    /\ trips = JoinTrips
    /\ InitGlobals

CallWith(feed, cursor) ==
    /\ pc = "call"
    /\ \E after \in {updateScatterPlot(cursor, [Cur EXCEPT !.stations = feed])} :
          Assign(after)
    /\ UNCHANGED <<pc, console>>

NextJoin == \E feed \in StationFeeds, cursor \in JoinCursors : CallWith(feed, cursor)

SpecJoin == InitJoin /\ [][NextJoin]_vars

(***************************************************************************)
(* Properties.                                                             *)
(***************************************************************************)
NamesOf(list) == {list[i].short_name : i \in DOMAIN list}

StartsAt(trip, name) == trip.start_station_id = name

EndsAt(trip, name) == trip.end_station_id = name

Departing(F, name) == Cardinality({t \in DOMAIN F : StartsAt(F[t], name)})

Arriving(F, name) == Cardinality({t \in DOMAIN F : EndsAt(F[t], name)})

\* the trips of F with exactly n endpoints among the names
WithKnownEnds(F, names, n) ==
    Cardinality({t \in DOMAIN F :
        Cardinality({e \in {"start_station_id", "end_station_id"} :
                        F[t][e] \in names}) = n})

\* C1: computeStationTraffic returns one entry per station, in the order of
\* the station list and with no short_name twice; a station that no trip
\* of the subset names has arrivals = departures = 0; an id that occurs only
\* in trips has no entry.
C1_Totality ==
    \A k \in DOMAIN runs :
        LET S == runs[k].stations
            F == runs[k].filteredTrips
            out == runs[k].stationsWithTraffic
        IN  /\ Len(out) = Len(S)
            /\ \A i \in DOMAIN S :
                /\ out[i].short_name = S[i].short_name
                /\ out[i].lon = S[i].lon /\ out[i].lat = S[i].lat
            /\ \A i, j \in DOMAIN out : i # j => out[i].short_name # out[j].short_name
            /\ \A i \in DOMAIN out :
                (\A t \in DOMAIN F : /\ ~StartsAt(F[t], out[i].short_name)
                                     /\ ~EndsAt(F[t], out[i].short_name))
                    => out[i].arrivals = 0 /\ out[i].departures = 0
            /\ NamesOf(out) = NamesOf(S)

\* a call on two stations, one of them named by no trip, with a trip that
\* names an id outside the station list
C1_Witness ==
    \E k \in DOMAIN runs :
        LET S == runs[k].stations
            F == runs[k].filteredTrips
            out == runs[k].stationsWithTraffic
        IN  /\ Len(S) = 2
            /\ \E i \in DOMAIN out : out[i].totalTraffic = 0
            /\ \E i \in DOMAIN out : out[i].totalTraffic > 0
            /\ \E t \in DOMAIN F : F[t].start_station_id \notin NamesOf(S)

\* C2: the totalTraffic of the output sums to twice the trips with both
\* endpoints in the station list plus the trips with exactly one; every
\* station's departures is the number of trips starting at it and its
\* arrivals the number ending at it, a trip from a station to itself
\* counting in both.
C2_Conservation ==
    \A k \in DOMAIN runs :
        LET S == runs[k].stations
            F == runs[k].filteredTrips
            out == runs[k].stationsWithTraffic
            both == WithKnownEnds(F, NamesOf(S), 2)
            one == WithKnownEnds(F, NamesOf(S), 1)
        IN  /\ SumSeq([i \in DOMAIN out |-> out[i].totalTraffic]) = 2 * both + one
            /\ \A i \in DOMAIN out :
                /\ out[i].departures = Departing(F, out[i].short_name)
                /\ out[i].arrivals = Arriving(F, out[i].short_name)
                /\ out[i].totalTraffic = out[i].departures + out[i].arrivals

\* a call whose trips hold one from a station to itself and one with exactly
\* one endpoint in the station list
C2_Witness ==
    \E k \in DOMAIN runs :
        LET S == runs[k].stations
            F == runs[k].filteredTrips
        IN  /\ \E t \in DOMAIN F : /\ F[t].start_station_id = F[t].end_station_id
                                   /\ F[t].start_station_id \in NamesOf(S)
            /\ \E t \in DOMAIN F : /\ F[t].start_station_id \in NamesOf(S)
                                   /\ F[t].end_station_id \notin NamesOf(S)

MinuteOfDay(date) == 60 * date.hours + date.minutes

InWindow(trip, c) ==
    \/ (MinuteOfDay(trip.started_at) - c \in -60..60)
    \/ (MinuteOfDay(trip.ended_at) - c \in -60..60)

\* the trips at the positions `kept` of list, in order
IsSelection(out, list, kept) ==
    /\ Len(out) = Cardinality(kept)
    /\ \A i \in kept : out[Cardinality({j \in kept : j <= i})] = list[i]

\* C3: for a cursor in 0..1439 the filter keeps, in input order, exactly the
\* trips whose start or end minute of day is at most 60 away from the
\* cursor, the distance being the plain difference of the two minutes.
C3_Window ==
    \A k \in DOMAIN runs :
        runs[k].cursor \in 0..1439 =>
            IsSelection(runs[k].filteredTrips, trips,
                        {i \in DOMAIN trips : InWindow(trips[i], runs[k].cursor)})

\* cursor 5 on a trip from 23:40 to 23:50, which is dropped, followed by a
\* trip starting at 01:05, exactly 60 minutes away, which is kept
C3_Witness ==
    \E k \in DOMAIN runs :
        /\ runs[k].cursor = 5
        /\ Len(trips) = 2
        /\ MinuteOfDay(trips[1].started_at) = 1420
        /\ MinuteOfDay(trips[1].ended_at) = 1430
        /\ MinuteOfDay(trips[2].started_at) = 65
        /\ MinuteOfDay(trips[2].ended_at) = 90
        /\ runs[k].filteredTrips = <<trips[2]>>

\* C4: with the cursor -1 the filter returns the trip list itself.
C4_Identity ==
    \A k \in DOMAIN runs : runs[k].cursor = -1 => runs[k].filteredTrips = trips

\* cursor -1 on two different trips
C4_Witness ==
    \E k \in DOMAIN runs :
        /\ runs[k].cursor = -1
        /\ Len(trips) = 2
        /\ trips[1] # trips[2]
        /\ Len(runs[k].filteredTrips) = 2

NodesOf(dom) == {dom[i].node : i \in DOMAIN dom}

KeysOf(dom) == {dom[i].data.short_name : i \in DOMAIN dom}

PositionOf(list, name) == CHOOSE i \in DOMAIN list : list[i].short_name = name

\* C5: after every call the overlay holds one circle per station, keyed by
\* short_name; a circle is created only for a key that had none, removed
\* only for a key that is no longer a station, and a key present before and
\* after keeps its element, which now carries the station's new datum.
C5_KeyedJoin ==
    \A k \in DOMAIN runs :
        LET r == runs[k]
        IN  /\ KeysOf(r.after) = NamesOf(r.stations)
            /\ Len(r.after) = Len(r.stations)
            /\ r.created = NodesOf(r.after) \ NodesOf(r.before)
            /\ r.removed = NodesOf(r.before) \ NodesOf(r.after)
            /\ \A j \in DOMAIN r.after :
                /\ r.after[j].node \in r.created
                      => r.after[j].data.short_name \notin KeysOf(r.before)
                /\ \E i \in DOMAIN r.stationsWithTraffic :
                      r.after[j].data = r.stationsWithTraffic[i]
            /\ \A i \in DOMAIN r.before :
                r.before[i].node \in r.removed
                    => r.before[i].data.short_name \notin NamesOf(r.stations)
            /\ \A i \in DOMAIN r.before : \A j \in DOMAIN r.after :
                r.before[i].data.short_name = r.after[j].data.short_name
                    => r.before[i].node = r.after[j].node

\* a call that removes a circle and keeps another whose station has moved
\* to a different position of the list
C5_Witness ==
    \E k \in DOMAIN runs :
        LET r == runs[k]
        IN  /\ r.prior # <<>>
            /\ r.removed # {}
            /\ \E i \in DOMAIN r.before : \E j \in DOMAIN r.after :
                /\ r.before[i].node = r.after[j].node
                /\ PositionOf(r.prior[1].stations, r.before[i].data.short_name)
                      # PositionOf(r.stations, r.after[j].data.short_name)

\* C6: a call with the cursor and the stations of the call before it
\* creates and removes nothing and leaves the radius, the flow bucket and
\* the tooltip of every circle as they were.
C6_Idempotent ==
    \A k \in DOMAIN runs :
        LET r == runs[k]
        IN  (/\ r.prior # <<>>
             /\ r.prior[1].cursor = r.cursor
             /\ r.prior[1].stations = r.stations)
            => /\ r.created = {}
               /\ r.removed = {}
               /\ Len(r.after) = Len(r.before)
               /\ \A i \in DOMAIN r.before : \E j \in DOMAIN r.after :
                    /\ r.after[j].node = r.before[i].node
                    /\ r.after[j].r = r.before[i].r
                    /\ r.after[j].flow = r.before[i].flow
                    /\ r.after[j].titles = r.before[i].titles

\* a repeated call with a time cursor on two stations
C6_Witness ==
    \E k \in DOMAIN runs :
        LET r == runs[k]
        IN  /\ r.prior # <<>>
            /\ r.prior[1].cursor = r.cursor
            /\ r.prior[1].stations = r.stations
            /\ r.cursor # -1
            /\ Len(r.after) = 2

MaxTotal(out) ==
    LET totals == {out[i].totalTraffic : i \in DOMAIN out}
    IN  IF totals \subseteq {0} THEN 0
        ELSE CHOOSE m \in totals : \A t \in totals : t <= m

\* C7: in every call the radius scale has the domain [0, M], M the largest
\* totalTraffic of the annotated stations or 1 when that is 0 or there is
\* no station, and the range [0, 25] for the cursor -1 and [3, 50] for any
\* other cursor, whatever the calls before it.
C7_ScalePerRun ==
    \A k \in DOMAIN runs :
        LET r == runs[k]
            M == MaxTotal(r.stationsWithTraffic)
        IN  /\ r.scale.domain = <<0, IF M = 0 THEN 1 ELSE M>>
            /\ r.scale.range = IF r.cursor = -1 THEN <<0, 25>> ELSE <<3, 50>>
            /\ radiusScale = <<runs[Len(runs)].scale>>

\* a call with a time cursor under which no station has traffic, following
\* an unfiltered call under which some station had more than one trip
C7_Witness ==
    \E k \in DOMAIN runs :
        LET r == runs[k]
        IN  /\ r.prior # <<>>
            /\ r.prior[1].cursor = -1
            /\ r.cursor # -1
            /\ \E i \in DOMAIN r.before : r.before[i].data.totalTraffic > 1
            /\ r.stationsWithTraffic # <<>>
            /\ MaxTotal(r.stationsWithTraffic) = 0

\* C8: within a call the radius does not decrease with totalTraffic; a
\* station with totalTraffic 0 gets the least radius of the range (0, or 3
\* with a time cursor) and a station with the largest totalTraffic, when
\* positive, the greatest (25, or 50 with a time cursor).
C8_RadiusMonotone ==
    \A k \in DOMAIN runs :
        LET r == runs[k]
            least == (IF r.cursor = -1 THEN 0 ELSE 3) * Precision
            greatest == (IF r.cursor = -1 THEN 25 ELSE 50) * Precision
            M == MaxTotal(r.stationsWithTraffic)
        IN  \A i \in DOMAIN r.after :
                /\ \A j \in DOMAIN r.after :
                    r.after[i].data.totalTraffic <= r.after[j].data.totalTraffic
                        => r.after[i].r <= r.after[j].r
                /\ r.after[i].data.totalTraffic = 0 => r.after[i].r = least
                /\ (M > 0 /\ r.after[i].data.totalTraffic = M)
                        => r.after[i].r = greatest

\* a call with a time cursor that leaves one station without traffic and
\* another with the largest
C8_Witness ==
    \E k \in DOMAIN runs :
        LET r == runs[k]
        IN  /\ r.cursor # -1
            /\ \E i, j \in DOMAIN r.after :
                /\ r.after[i].data.totalTraffic = 0
                /\ r.after[j].data.totalTraffic > 0
                /\ r.after[i].r < r.after[j].r

\* C9: the flow bucket of every circle is "0", "0.5" or "1": "0.5" for a
\* station without traffic, otherwise "0" when departures / totalTraffic is
\* below 1/3, "0.5" from 1/3 up to but not including 2/3, and "1" from 2/3
\* on; the ratios 0.2, 0.5 and 0.9 give "0", "0.5" and "1".
C9_FlowBuckets ==
    /\ \A i \in DOMAIN svg :
        LET d == svg[i].data
        IN  /\ svg[i].flow \in {"0", "0.5", "1"}
            /\ d.totalTraffic = 0 => svg[i].flow = "0.5"
            /\ (d.totalTraffic > 0 /\ 3 * d.departures < d.totalTraffic)
                  => svg[i].flow = "0"
            /\ (d.totalTraffic > 0 /\ 3 * d.departures >= d.totalTraffic
                    /\ 3 * d.departures < 2 * d.totalTraffic)
                  => svg[i].flow = "0.5"
            /\ (d.totalTraffic > 0 /\ 3 * d.departures >= 2 * d.totalTraffic)
                  => svg[i].flow = "1"
    /\ stationFlow(2, 10) = "0"
    /\ stationFlow(5, 10) = "0.5"
    /\ stationFlow(9, 10) = "1"

\* a circle whose station has one departure in three trips, the ratio 1/3
C9_Witness ==
    \E i \in DOMAIN svg :
        /\ svg[i].data.totalTraffic = 3
        /\ svg[i].data.departures = 1
        /\ svg[i].flow = "0.5"

\* what a call of updateScatterPlot with the cursor on an empty overlay shows
\* for the loaded data: per station the radius, flow bucket and tooltip
ShownFor(cursor) ==
    updateScatterPlot(cursor,
        [stations |-> stations, trips |-> trips, radiusScale |-> <<>>,
         svg |-> <<>>, viewport |-> viewport, runs |-> <<>>]).svg

SameMarkers(dom, expected) ==
    /\ Len(dom) = Len(expected)
    /\ \A j \in DOMAIN expected : \E i \in DOMAIN dom :
        /\ dom[i].data.short_name = expected[j].data.short_name
        /\ dom[i].r = expected[j].r
        /\ dom[i].flow = expected[j].flow
        /\ dom[i].titles = expected[j].titles

\* C10: once both feeds have loaded, after every slider notification the
\* radius, flow bucket and tooltip of every circle are those computed from
\* the cursor the notification delivered.
C10_RerunOnCursorChange ==
    (pc = "ready" /\ hasSlider /\ timeFilter = Number(sliderValue))
        => SameMarkers(svg, ShownFor(timeFilter))

Loading == {"start", "stations", "trips"}

\* C11: while a feed is still loading no call of updateScatterPlot has been
\* made, the overlay is empty and radiusScale is undefined; a slider
\* notification in that time stores the cursor and sets the label and
\* changes nothing else, and writes no diagnostic; a call has been made only
\* once both feeds have loaded.
C11_NoRunWhileLoading ==
    /\ [](pc \in Loading => runs = <<>> /\ svg = <<>> /\ radiusScale = <<>>)
    /\ [](runs # <<>> => pc = "ready")
    /\ [][(pc \in Loading /\ pc' = pc)
            => /\ UNCHANGED <<stations, trips, radiusScale, svg, console, runs>>
               /\ sliderValue' # sliderValue
                    => /\ timeFilter' = Number(sliderValue')
                       /\ label'.text = (IF timeFilter' = -1 THEN ""
                                         ELSE formatTime(timeFilter'))
                       /\ viewport' = viewport]_vars

\* the slider stands at 480 and the label shows it while the stations are
\* in and the trips are awaited
C11_Witness ==
    /\ pc = "trips"
    /\ Len(stations) = 2
    /\ timeFilter = 480
    /\ label.text = "8:00 AM"
    /\ runs = <<>>
    /\ svg = <<>>

\* C12: a step that changes the map's view leaves the cursor, the slider and
\* its label, the base data, the radius scale and the record of calls as
\* they were, and the overlay holds the same elements in the same order with
\* the same datum, radius, flow bucket and tooltip: only positions change.
C12_ViewportOnlyReprojects ==
    [][viewport' # viewport
        => /\ UNCHANGED <<pc, sliderValue, timeFilter, label, stations, trips,
                         radiusScale, console, runs>>
           /\ snapshot(svg') = snapshot(svg)]_vars

\* two circles, one with a radius, stand where the present view puts them,
\* and the view is not the one the latest call rendered under
C12_Witness ==
    /\ pc = "ready"
    /\ Len(svg) = 2
    /\ runs[Len(runs)].viewport # viewport
    /\ \E i \in DOMAIN svg :
        /\ svg[i].r > 0
        /\ svg[i].cx = (svg[i].data.lon - viewport.lon) * viewport.scale
        /\ svg[i].cx # (svg[i].data.lon - runs[Len(runs)].viewport.lon)
                          * runs[Len(runs)].viewport.scale

\* C13: in every state every circle stands at the projection, under the
\* map's present view, of the longitude and latitude of the station bound
\* to it, and that station is one of the loaded stations.
C13_PositionsCurrent ==
    \A i \in DOMAIN svg :
        /\ svg[i].cx = (svg[i].data.lon - viewport.lon) * viewport.scale
        /\ svg[i].cy = (viewport.lat - svg[i].data.lat) * viewport.scale
        /\ \E j \in DOMAIN stations :
            /\ stations[j].short_name = svg[i].data.short_name
            /\ stations[j].lon = svg[i].data.lon
            /\ stations[j].lat = svg[i].data.lat

\* the latest call rendered under a view that is not the initial one and the
\* map has since returned to the initial view: two circles, both placed
\* under the present view
C13_Witness ==
    /\ pc = "ready"
    /\ hasSlider
    /\ Len(svg) = 2
    /\ runs[Len(runs)].viewport # InitialView
    /\ viewport = InitialView
    /\ svg[1].cx # svg[2].cx
    /\ \A i \in DOMAIN svg :
        svg[i].cx = (svg[i].data.lon - viewport.lon) * viewport.scale

C15_CursorInRange == timeFilter = -1 \/ timeFilter \in 0..1439

\* departures, arrivals and totalTraffic of the named station in an output
CountsOf(out, name) ==
    LET d == out[PositionOf(out, name)]
    IN  <<d.departures, d.arrivals, d.totalTraffic>>

\* C16: with the stations A and B and the trips A->B 08:00-08:10 and
\* B->A 20:00-20:05, a call with the cursor -1 gives A and B each 1
\* departure, 1 arrival, total 2; a call with the cursor 480 keeps only the
\* first trip and gives A 1 departure, 0 arrivals, total 1 and B 0
\* departures, 1 arrival, total 1.
C16_Scenario ==
    \A k \in DOMAIN runs :
        LET r == runs[k]
        IN  (/\ NamesOf(r.stations) = {"A", "B"}
             /\ trips = << Trip("A", "B", Date(1, 8, 0), Date(1, 8, 10)),
                           Trip("B", "A", Date(1, 20, 0), Date(1, 20, 5)) >>)
            => /\ r.cursor = -1
                    => /\ Len(r.filteredTrips) = 2
                       /\ CountsOf(r.stationsWithTraffic, "A") = <<1, 1, 2>>
                       /\ CountsOf(r.stationsWithTraffic, "B") = <<1, 1, 2>>
               /\ r.cursor = 480
                    => /\ r.filteredTrips = <<trips[1]>>
                       /\ CountsOf(r.stationsWithTraffic, "A") = <<1, 0, 1>>
                       /\ CountsOf(r.stationsWithTraffic, "B") = <<0, 1, 1>>

\* the scenario's two calls one after the other: cursor -1, then cursor 480,
\* on the stations A and B
C16_Witness ==
    \E k \in DOMAIN runs :
        LET r == runs[k]
        IN  /\ r.stations = <<Station(1), Station(2)>>
            /\ NamesOf(r.stations) = {"A", "B"}
            /\ r.prior # <<>>
            /\ r.prior[1].stations = r.stations
            /\ r.prior[1].cursor = -1
            /\ r.cursor = 480
            /\ Len(r.filteredTrips) = 1
            /\ \E i \in DOMAIN r.before : r.before[i].data.totalTraffic = 2

\* C17: once both feeds have loaded, whatever cursors were delivered
\* before, the overlay holds the stations that one call with the cursor now
\* stored would put there from a fresh state, in the same order, each with
\* that call's datum, radius, flow bucket and tooltip.
C17_HistoryIndependent ==
    pc = "ready"
        => LET fresh == ShownFor(timeFilter)
           IN  /\ Len(svg) = Len(fresh)
               /\ \A i \in DOMAIN svg :
                    /\ svg[i].data = fresh[i].data
                    /\ svg[i].r = fresh[i].r
                    /\ svg[i].flow = fresh[i].flow
                    /\ svg[i].titles = fresh[i].titles

\* the same, for a page whose trip feed was not empty
HistoryIndependentWithTrips == trips # <<>> => C17_HistoryIndependent

\* C18: the first call of updateScatterPlot, the one no call precedes, has
\* the cursor -1, keeps every trip and sets the radius range to [0, 25],
\* also when the slider was moved while the feeds were loading.
C18_FirstRunUnfiltered ==
    \A k \in DOMAIN runs :
        runs[k].prior = <<>>
            => /\ runs[k].cursor = -1
               /\ runs[k].filteredTrips = trips
               /\ runs[k].scale.range = <<0, 25>>

\* C19: the station list changes only in the step that loads it and the
\* trip list only in the step that loads it: no call of updateScatterPlot,
\* slider notification or map notification changes either, and a station
\* record never carries more than the fields of the feed, the traffic
\* counts being held by the data bound to the circles.
C19_BaseDataUntouched ==
    /\ [](\A i \in DOMAIN stations : DOMAIN stations[i] = {"short_name", "lon", "lat"})
    /\ [][/\ pc # "stations" => stations' = stations
          /\ pc # "trips" => trips' = trips]_vars

\* after the load and a later call with the cursor 480, a circle's datum
\* carries a positive totalTraffic while the station records are as loaded
C19_Witness ==
    /\ pc = "ready"
    /\ timeFilter = 480
    /\ Len(stations) = 2
    /\ Len(trips) = 2
    /\ runs[Len(runs)].prior # <<>>
    /\ runs[Len(runs)].cursor = 480
    /\ \E i \in DOMAIN svg :
        /\ svg[i].data.totalTraffic > 0
        /\ svg[i].data.short_name = stations[i].short_name
        /\ svg[i].data # stations[i]

\* the trips the cursor c selects
Selected(c) ==
    {t \in DOMAIN trips : c = -1 \/ InWindow(trips[t], c)}

\* C20: after every call each circle has exactly one <title>, reading
\* "<totalTraffic> trips (<departures> departures, <arrivals> arrivals)",
\* where departures and arrivals are the numbers of trips selected by the
\* cursor of the latest call that start and that end at the circle's
\* station, and totalTraffic is their sum.
C20_OneTooltip ==
    \A i \in DOMAIN svg :
        LET c == runs[Len(runs)].cursor
            name == svg[i].data.short_name
            dep == Cardinality({t \in Selected(c) : StartsAt(trips[t], name)})
            arr == Cardinality({t \in Selected(c) : EndsAt(trips[t], name)})
        IN  /\ Len(svg[i].titles) = 1
            /\ svg[i].titles[1] =
                  ToString(dep + arr) \o " trips (" \o ToString(dep)
                      \o " departures, " \o ToString(arr) \o " arrivals)"
            /\ svg[i].data.totalTraffic = svg[i].data.departures + svg[i].data.arrivals

\* a call after the first has replaced a circle's tooltip: the circle had
\* "3 trips (1 departures, 2 arrivals)" and now has another single tooltip
C20_Witness ==
    \E k \in DOMAIN runs :
        /\ k = Len(runs)
        /\ runs[k].prior # <<>>
        /\ \E i \in DOMAIN runs[k].before : \E j \in DOMAIN svg :
            /\ runs[k].before[i].node = svg[j].node
            /\ runs[k].before[i].titles = <<"3 trips (1 departures, 2 arrivals)">>
            /\ svg[j].titles # runs[k].before[i].titles
            /\ Len(svg[j].titles) = 1

====
